---- MODULE Spec2Model ----
(***************************************************************************)
(* Model of the Stripe payment-request utilities of the WooCommerce Stripe *)
(* gateway (client/blocks/stripe-utils/utils.js): configuration access,    *)
(* the payment-request builder and updater, the capability prober, the     *)
(* error classifier and the address normalizer.                            *)
(*                                                                         *)
(* JavaScript values are records [k, s]: k is the value's type and s its   *)
(* text.  Objects are records with k = "object" and one field per          *)
(* property.  A call of a utility is one action; it leaves in `call` the   *)
(* function called, its arguments, how it ended (return / throw), its      *)
(* value and the calls it made to the vendor SDK, in order.                *)
(***************************************************************************)
EXTENDS Integers, Sequences, FiniteSets, TLC

VARIABLES
    settings,     \* the 'stripe_data' settings blob, as getSetting returns it
    wcParams,     \* the global wc_stripe_payment_request_params
    handle,       \* the vendor's payment-request handle the page holds
    call,         \* the last call of a utility and its outcome
    probes,       \* per invocation of canDoPaymentRequest: its promises
    jobs,         \* the microtask queue: reactions waiting to run
    env,          \* the release script's machine and remote, when it starts
    sh,           \* the release script: its variables, position and exit
    ui            \* the express payment button: its inputs, render and clicks

vars == <<settings, wcParams, handle, call, probes, jobs, env, sh, ui>>

----------------------------------------------------------------------------
(* Bounds of the model. *)

MaxItems == 1         \* line items in a cart
MaxPostcodeLen == 3   \* characters in a postcode
MaxProbes == 2        \* invocations of canDoPaymentRequest in flight

----------------------------------------------------------------------------
(* JavaScript values. *)

Undefined == [k |-> "undefined", s |-> ""]
Null == [k |-> "null", s |-> ""]
True == [k |-> "boolean", s |-> "true"]
False == [k |-> "boolean", s |-> "false"]
Str(x) == [k |-> "string", s |-> x]

\* ToBoolean: undefined, null, false and the empty string are falsy; every
\* object and every other string is truthy.
Truthy(v) ==
    CASE v.k \in {"undefined", "null"} -> FALSE
      [] v.k = "boolean" -> v.s = "true"
      [] v.k = "string" -> v.s # ""
      [] OTHER -> TRUE

\* a || b
Or(a, b) == IF Truthy(a) THEN a ELSE b

\* How a call of a function ends.
Return(v, sdkCalls) == [outcome |-> "return", value |-> v, sdk |-> sdkCalls]
Throw(msg, sdkCalls) == [outcome |-> "throw", value |-> Str(msg), sdk |-> sdkCalls]

\* __( text, 'woocommerce-gateway-stripe' ) under the default locale.
i18n__(text) == Str(text)

NoCall == [fn |-> "none", args |-> Null, outcome |-> "none", value |-> Undefined,
           sdk |-> <<>>]
Called(fn, args, r) ==
    [fn |-> fn, args |-> args, outcome |-> r.outcome, value |-> r.value, sdk |-> r.sdk]

NoHandle == [k |-> "null"]

----------------------------------------------------------------------------
(* Inputs. *)

Amounts == {500, 1000}
CurrencyCodes == {Str("usd"), Str("eur")}
CountryCodes == {Undefined, Str(""), Str("PR"), Str("GB")}
Flags == {True, False}

\* Line items as checkout/cart provides them.
CartTotalItem == {[label |-> Str("Shipping"), value |-> 500]}
\* Line items as the store's AJAX API provides them.
PaymentItems == {[label |-> Str("Shipping"), amount |-> 500]}

SeqsUpTo(S, n) == UNION {[1..m -> S] : m \in 0..n}

\* The blob is absent (getSetting's default, null) or an object; publicKey and
\* stripeTotalLabel are each absent, empty or set.
SettingsBlobs ==
    {Null,
     [k |-> "object", publicKey |-> Undefined, stripeTotalLabel |-> Undefined],
     [k |-> "object", publicKey |-> Str(""), stripeTotalLabel |-> Str("")],
     [k |-> "object", publicKey |-> Str("pk_test_1"), stripeTotalLabel |-> Undefined],
     [k |-> "object", publicKey |-> Str("pk_test_1"), stripeTotalLabel |-> Str("Pay now")]}

BuilderInputs ==
    [total : [value : Amounts],
     currencyCode : CurrencyCodes,
     countryCode : CountryCodes,
     shippingRequired : Flags,
     cartTotalItems : SeqsUpTo(CartTotalItem, MaxItems)]

Carts ==
    [order_data : [total : [label : {Str("Total")}, amount : Amounts],
                   currency : CurrencyCodes,
                   country_code : CountryCodes,
                   displayItems : SeqsUpTo(PaymentItems, MaxItems)],
     shipping_required : Flags]

\* Carts an update is made with: the cart's country and shipping flag are not
\* read by the updater, so one country that differs from the handle's is kept.
UpdateCarts ==
    {cart \in Carts : cart.order_data.country_code = Str("PR") /\ cart.shipping_required = True}

UpdateInputs ==
    [total : [value : Amounts],
     currencyCode : CurrencyCodes,
     cartTotalItems : SeqsUpTo(CartTotalItem, MaxItems)]

----------------------------------------------------------------------------
(* Configuration access. *)

getStripeServerData(blob) ==
    IF ~Truthy(blob)
    THEN Throw("Stripe initialization data is not available", <<>>)
    ELSE Return(blob, <<>>)

\* getApiKey without its check of the key.
getApiKey_unchecked(blob) ==
    LET data == getStripeServerData(blob) IN
    IF data.outcome = "throw" THEN data
    ELSE Return(data.value.publicKey, <<>>)

getApiKey(blob) ==
    LET data == getStripeServerData(blob) IN
    IF data.outcome = "throw" THEN data
    ELSE IF ~Truthy(data.value.publicKey)
         THEN Throw("There is no api key available for stripe.", <<>>)
         ELSE Return(data.value.publicKey, <<>>)

\* getTotalPaymentItem with the default label only.
getTotalPaymentItem_defaultLabel(blob, total) ==
    LET data == getStripeServerData(blob) IN
    IF data.outcome = "throw" THEN data
    ELSE Return([label |-> i18n__("Total"), amount |-> total.value], <<>>)

getTotalPaymentItem(blob, total) ==
    LET data == getStripeServerData(blob) IN
    IF data.outcome = "throw" THEN data
    ELSE Return([label |-> Or(data.value.stripeTotalLabel, i18n__("Total")),
                 amount |-> total.value], <<>>)

\* normalizeLineItems of ./normalize: one display item per line item, in order.
normalizeLineItems(items) ==
    [i \in 1..Len(items) |-> [label |-> items[i].label, amount |-> items[i].value]]

----------------------------------------------------------------------------
(* The vendor SDK: stripe.paymentRequest( options ) makes a handle that     *)
(* keeps the options; handle.update( o ) replaces the options o names.      *)

stripePaymentRequest(options) == [k |-> "handle", options |-> options]

handleUpdate(h, o) ==
    [h EXCEPT !.options =
        [f \in DOMAIN h.options |-> IF f \in DOMAIN o THEN o[f] ELSE h.options[f]]]

----------------------------------------------------------------------------
(* Request builder. *)

getPaymentRequest(blob, in) ==
    LET total == getTotalPaymentItem(blob, in.total) IN
    IF total.outcome = "throw" THEN total
    ELSE LET options ==
                 [total |-> total.value,
                  currency |-> in.currencyCode,
                  country |-> Or(in.countryCode, Str("US")),
                  requestPayerName |-> True,
                  requestPayerEmail |-> True,
                  requestPayerPhone |-> True,
                  requestShipping |-> in.shippingRequired,
                  displayItems |-> normalizeLineItems(in.cartTotalItems)]
         IN Return(stripePaymentRequest(options),
                   <<[op |-> "paymentRequest", arg |-> options]>>)

createPaymentRequestUsingCart(params, cart) ==
    LET options ==
            [total |-> cart.order_data.total,
             currency |-> cart.order_data.currency,
             country |-> cart.order_data.country_code,
             requestPayerName |-> True,
             requestPayerEmail |-> True,
             requestPayerPhone |-> params.checkout.needs_payer_phone,
             requestShipping |-> IF Truthy(cart.shipping_required) THEN True ELSE False,
             displayItems |-> cart.order_data.displayItems]
        mapped == IF options.country = Str("PR")
                  THEN [options EXCEPT !.country = Str("US")]
                  ELSE options
    IN Return(stripePaymentRequest(mapped),
              <<[op |-> "paymentRequest", arg |-> mapped]>>)

----------------------------------------------------------------------------
(* Request updater. *)

updatePaymentRequest(blob, in) ==
    LET total == getTotalPaymentItem(blob, in.total) IN
    IF total.outcome = "throw" THEN total
    ELSE Return(Undefined,
                <<[op |-> "update",
                   arg |-> [total |-> total.value,
                            currency |-> in.currencyCode,
                            displayItems |-> normalizeLineItems(in.cartTotalItems)]]>>)

\* updatePaymentRequestWithCart passing the cart's country as well.
updatePaymentRequestWithCart_country(cart) ==
    Return(Undefined,
           <<[op |-> "update",
              arg |-> [total |-> cart.order_data.total,
                       currency |-> cart.order_data.currency,
                       country |-> cart.order_data.country_code,
                       displayItems |-> cart.order_data.displayItems]]>>)

updatePaymentRequestWithCart(cart) ==
    Return(Undefined,
           <<[op |-> "update",
              arg |-> [total |-> cart.order_data.total,
                       currency |-> cart.order_data.currency,
                       displayItems |-> cart.order_data.displayItems]]>>)

\* The handle after the SDK calls a utility made, in order.
RECURSIVE ApplySdk(_, _)
ApplySdk(h, sdkCalls) ==
    IF sdkCalls = <<>> THEN h
    ELSE LET c == Head(sdkCalls) IN
         ApplySdk(IF c.op = "paymentRequest" THEN stripePaymentRequest(c.arg)
                  ELSE handleUpdate(h, c.arg),
                  Tail(sdkCalls))

----------------------------------------------------------------------------
(* Capability prober.                                                       *)
(*                                                                          *)
(* canDoPaymentRequest makes a promise (outer) whose executor calls         *)
(* paymentRequest.canMakePayment() and registers one reaction on the        *)
(* promise it returns (inner) with then( onFulfilled ); then() makes a      *)
(* third promise (derived).  No onRejected is given and the executor takes  *)
(* no reject function.                                                      *)

\* result.applePay
applePayOf(result) == IF result.k = "object" THEN result.applePay ELSE Undefined

\* The reaction without the return that follows its first resolve.
onCanMakePayment_noReturn(result) ==
    IF Truthy(result)
    THEN LET paymentRequestType ==
                 IF Truthy(applePayOf(result)) THEN Str("apple_pay")
                 ELSE Str("payment_request_api")
         IN <<[canPay |-> True, requestType |-> paymentRequestType], [canPay |-> False]>>
    ELSE <<[canPay |-> False]>>

\* The reaction given to then(): the calls of resolve it makes, in order.
onCanMakePayment(result) ==
    IF Truthy(result)
    THEN LET paymentRequestType ==
                 IF Truthy(applePayOf(result)) THEN Str("apple_pay")
                 ELSE Str("payment_request_api")
         IN <<[canPay |-> True, requestType |-> paymentRequestType]>>
    ELSE <<[canPay |-> False]>>

\* What canMakePayment() may resolve with.
ProbeResults ==
    {Null, False,
     [k |-> "object", applePay |-> True],
     [k |-> "object", applePay |-> False],
     [k |-> "object", applePay |-> Undefined]}

ProbeError == Str("canMakePayment failed")

NoProbe ==
    [inner |-> "none", result |-> Undefined,
     outer |-> "none", value |-> Undefined,
     derived |-> "none",
     canMakePaymentCalls |-> 0, resolveCalls |-> 0]

\* resolve( v ) on a promise: settles it the first time, does nothing after.
RECURSIVE ResolveAll(_, _)
ResolveAll(p, values) ==
    IF values = <<>> THEN p
    ELSE ResolveAll(
            [p EXCEPT !.outer = "fulfilled",
                      !.value = IF p.outer = "pending" THEN Head(values) ELSE p.value,
                      !.resolveCalls = p.resolveCalls + 1],
            Tail(values))

\* canDoPaymentRequest( paymentRequest ) up to its return: the executor has
\* run, the probe is in flight and the promise returned is pending.
canDoPaymentRequest(p) ==
    [p EXCEPT !.inner = "pending",
              !.canMakePaymentCalls = p.canMakePaymentCalls + 1,
              !.derived = "pending",
              !.outer = "pending"]

\* The reaction job of inner, run from the microtask queue.
runReaction(p) ==
    IF p.inner = "fulfilled"
    THEN [ResolveAll(p, onCanMakePayment(p.result)) EXCEPT !.derived = "fulfilled"]
    ELSE [p EXCEPT !.derived = "rejected"]

----------------------------------------------------------------------------
(* Error classifier. *)

\* ./constants
errorTypes ==
    [INVALID_EMAIL |-> Str("invalid_email"),
     INVALID_REQUEST |-> Str("invalid_request"),
     API_CONNECTION |-> Str("api_connection"),
     API_ERROR |-> Str("api_error"),
     AUTHENTICATION_ERROR |-> Str("authentication_error"),
     RATE_LIMIT_ERROR |-> Str("rate_limit_error"),
     CARD_ERROR |-> Str("card_error"),
     VALIDATION_ERROR |-> Str("validation_error")]

errorCodes ==
    [INVALID_NUMBER |-> Str("invalid_number"),
     INVALID_EXPIRY_MONTH |-> Str("invalid_expiry_month"),
     INVALID_EXPIRY_YEAR |-> Str("invalid_expiry_year"),
     INVALID_CVC |-> Str("invalid_cvc"),
     INCORRECT_NUMBER |-> Str("incorrect_number"),
     INCOMPLETE_NUMBER |-> Str("incomplete_number"),
     INCOMPLETE_CVC |-> Str("incomplete_cvc"),
     INCOMPLETE_EXPIRY |-> Str("incomplete_expiry"),
     EXPIRED_CARD |-> Str("expired_card"),
     INCORRECT_CVC |-> Str("incorrect_cvc"),
     INCORRECT_ZIP |-> Str("incorrect_zip"),
     INVALID_EXPIRY_YEAR_PAST |-> Str("invalid_expiry_year_past"),
     CARD_DECLINED |-> Str("card_declined"),
     MISSING |-> Str("missing"),
     PROCESSING_ERROR |-> Str("processing_error")]

isNonFriendlyError(type) ==
    IF type \in {errorTypes.INVALID_REQUEST,
                 errorTypes.API_CONNECTION,
                 errorTypes.API_ERROR,
                 errorTypes.AUTHENTICATION_ERROR,
                 errorTypes.RATE_LIMIT_ERROR}
    THEN True ELSE False

\* The messages object: its keys and the message under each.
messages ==
    {<<errorCodes.INVALID_NUMBER,
       i18n__("The card number is not a valid credit card number.")>>,
     <<errorCodes.INVALID_EXPIRY_MONTH, i18n__("The card expiration month is invalid.")>>,
     <<errorCodes.INVALID_EXPIRY_YEAR, i18n__("The card expiration year is invalid.")>>,
     <<errorCodes.INVALID_CVC, i18n__("The card security code is invalid.")>>,
     <<errorCodes.INCORRECT_NUMBER, i18n__("The card number is incorrect.")>>,
     <<errorCodes.INCOMPLETE_NUMBER, i18n__("The card number is incomplete.")>>,
     <<errorCodes.INCOMPLETE_CVC, i18n__("The card security code is incomplete.")>>,
     <<errorCodes.INCOMPLETE_EXPIRY, i18n__("The card expiration date is incomplete.")>>,
     <<errorCodes.EXPIRED_CARD, i18n__("The card has expired.")>>,
     <<errorCodes.INCORRECT_CVC, i18n__("The card security code is incorrect.")>>,
     <<errorCodes.INCORRECT_ZIP, i18n__("The card zip code failed validation.")>>,
     <<errorCodes.INVALID_EXPIRY_YEAR_PAST,
       i18n__("The card expiration year is in the past")>>,
     <<errorCodes.CARD_DECLINED, i18n__("The card was declined.")>>,
     <<errorCodes.MISSING,
       i18n__("There is no card on a customer that is being charged.")>>,
     <<errorCodes.PROCESSING_ERROR,
       i18n__("An error occurred while processing the card.")>>}

\* messages[ code ]: the message under the key, undefined without one.
messagesAt(code) ==
    IF \E e \in messages : e[1] = code
    THEN (CHOOSE e \in messages : e[1] = code)[2]
    ELSE Undefined

getErrorMessageForCode(code) == Or(messagesAt(code), Null)

InvalidEmailMessage == i18n__("Invalid email address, please correct and try again.")
GenericErrorMessage ==
    i18n__("Unable to process this payment, please try again or use alternative method.")

\* The classifier with the card_error case falling through to the next one.
getErrorMessageForTypeAndCode_fallThrough(type, codeArg) ==
    IF type = errorTypes.INVALID_EMAIL THEN Return(InvalidEmailMessage, <<>>)
    ELSE IF type = isNonFriendlyError(type) THEN Return(GenericErrorMessage, <<>>)
    ELSE IF type = errorTypes.CARD_ERROR THEN Return(Str(""), <<>>)
    ELSE IF type = errorTypes.VALIDATION_ERROR THEN Return(Str(""), <<>>)
    ELSE Return(Null, <<>>)

\* switch ( type ): the first case whose value is strictly equal to type.
getErrorMessageForTypeAndCode(type, codeArg) ==
    LET code == IF codeArg = Undefined THEN Str("") ELSE codeArg IN
    IF type = errorTypes.INVALID_EMAIL THEN Return(InvalidEmailMessage, <<>>)
    ELSE IF type = isNonFriendlyError(type) THEN Return(GenericErrorMessage, <<>>)
    ELSE IF type = errorTypes.CARD_ERROR THEN Return(getErrorMessageForCode(code), <<>>)
    ELSE IF type = errorTypes.VALIDATION_ERROR THEN Return(Str(""), <<>>)
    ELSE Return(Null, <<>>)

NonFriendlyTypes ==
    {Str("invalid_request"), Str("api_connection"), Str("api_error"),
     Str("authentication_error"), Str("rate_limit_error")}

ErrorTypeInputs ==
    NonFriendlyTypes \cup
    {Str("invalid_email"), Str("card_error"), Str("validation_error"),
     Str("idempotency_error"), Str(""), Undefined}

ErrorCodeInputs ==
    {errorCodes[f] : f \in DOMAIN errorCodes} \cup
    {Str("postal_code_invalid"), Str(""), Undefined}

----------------------------------------------------------------------------
(* Address normalizer.  A postcode is a string, kept as its characters. *)

Chars == {" ", "a", "A", "1"}

PStr(chars) == [k |-> "string", c |-> chars]
PNull == [k |-> "null", c |-> <<>>]

\* String.prototype.replace with a string pattern of one character: the
\* first occurrence only.
RECURSIVE replace(_, _, _)
replace(str, pattern, replacement) ==
    IF str = <<>> THEN <<>>
    ELSE IF Head(str) = pattern THEN replacement \o Tail(str)
    ELSE <<Head(str)>> \o replace(Tail(str), pattern, replacement)

toUpperCaseChar(c) == IF c = "a" THEN "A" ELSE c
toUpperCase(str) == [i \in 1..Len(str) |-> toUpperCaseChar(str[i])]

pluckAddress(address) ==
    IF address.postcode.k # "string"
    THEN Throw("TypeError: Cannot read properties of null (reading 'replace')", <<>>)
    ELSE Return([country |-> address.country,
                 state |-> address.state,
                 city |-> address.city,
                 postcode |-> PStr(toUpperCase(replace(address.postcode.c, " ", <<>>)))],
                <<>>)

Postcodes == {PStr(c) : c \in SeqsUpTo(Chars, MaxPostcodeLen)}

Addresses ==
    [country : {Str("GB"), Str("US")},
     state : {Str(""), Str("CA")},
     city : {Str("London")},
     postcode : Postcodes \cup {PNull},
     address_1 : {Str("10 Downing St")}]

----------------------------------------------------------------------------
(* The release script and the button component, while they are not run. *)

NoEnv == [k |-> "none"]
NotRun == [pc |-> "not run"]
NoUi == [k |-> "unmounted"]

----------------------------------------------------------------------------
(* The page: configuration, builder and updater. *)

\* The prober's promises, before any probe.
NoProbes == [i \in 1..MaxProbes |-> NoProbe]

WcParams == {[checkout |-> [needs_payer_phone |-> b]] : b \in Flags}

Init ==
    /\ settings \in SettingsBlobs
    /\ wcParams \in WcParams
    /\ handle = NoHandle
    /\ call = NoCall
    /\ probes = NoProbes
    /\ jobs = <<>>
    /\ env = NoEnv
    /\ sh = NotRun
    /\ ui = NoUi

GetStripeServerData ==
    /\ call' = Called("getStripeServerData", Null, getStripeServerData(settings))
    /\ UNCHANGED <<settings, wcParams, handle, probes, jobs, env, sh, ui>>

GetApiKey ==
    /\ call' = Called("getApiKey", Null, getApiKey(settings))
    /\ UNCHANGED <<settings, wcParams, handle, probes, jobs, env, sh, ui>>

GetPaymentRequest ==
    \E in \in BuilderInputs :
        LET r == getPaymentRequest(settings, in) IN
        /\ call' = Called("getPaymentRequest", in, r)
        /\ handle' = ApplySdk(handle, r.sdk)
        /\ UNCHANGED <<settings, wcParams, probes, jobs, env, sh, ui>>

CreatePaymentRequestUsingCart ==
    \E cart \in Carts :
        LET r == createPaymentRequestUsingCart(wcParams, cart) IN
        /\ call' = Called("createPaymentRequestUsingCart", cart, r)
        /\ handle' = ApplySdk(handle, r.sdk)
        /\ UNCHANGED <<settings, wcParams, probes, jobs, env, sh, ui>>

UpdatePaymentRequest ==
    /\ handle # NoHandle
    /\ \E in \in UpdateInputs :
        LET r == updatePaymentRequest(settings, in) IN
        /\ call' = Called("updatePaymentRequest", in, r)
        /\ handle' = ApplySdk(handle, r.sdk)
        /\ UNCHANGED <<settings, wcParams, probes, jobs, env, sh, ui>>

UpdatePaymentRequestWithCart ==
    /\ handle # NoHandle
    /\ \E cart \in UpdateCarts :
        LET r == updatePaymentRequestWithCart(cart) IN
        /\ call' = Called("updatePaymentRequestWithCart", cart, r)
        /\ handle' = ApplySdk(handle, r.sdk)
        /\ UNCHANGED <<settings, wcParams, probes, jobs, env, sh, ui>>

Next ==
    \/ GetStripeServerData
    \/ GetApiKey
    \/ GetPaymentRequest
    \/ CreatePaymentRequestUsingCart
    \/ UpdatePaymentRequest
    \/ UpdatePaymentRequestWithCart

Spec == Init /\ [][Next]_vars

----------------------------------------------------------------------------
(* The capability prober, on a handle the page has made. *)

SampleCart ==
    [order_data |-> [total |-> [label |-> Str("Total"), amount |-> 1000],
                     currency |-> Str("usd"),
                     country_code |-> Str("US"),
                     displayItems |-> <<>>],
     shipping_required |-> False]

InitProbe ==
    /\ settings = Null
    /\ wcParams \in WcParams
    /\ handle = createPaymentRequestUsingCart(wcParams, SampleCart).value
    /\ call = NoCall
    /\ probes = NoProbes
    /\ jobs = <<>>
    /\ env = NoEnv
    /\ sh = NotRun
    /\ ui = NoUi

\* The page calls canDoPaymentRequest( paymentRequest ).
CanDoPaymentRequest ==
    /\ handle # NoHandle
    /\ \E i \in 1..MaxProbes :
        /\ probes[i].inner = "none"
        /\ \A j \in 1..(i - 1) : probes[j].inner # "none"
        /\ probes' = [probes EXCEPT ![i] = canDoPaymentRequest(probes[i])]
    /\ UNCHANGED <<settings, wcParams, handle, call, jobs, env, sh, ui>>

\* The vendor fulfils the promise of canMakePayment(): its reaction is queued.
ProbeResolves ==
    \E i \in 1..MaxProbes, r \in ProbeResults :
        /\ probes[i].inner = "pending"
        /\ probes' = [probes EXCEPT ![i].inner = "fulfilled", ![i].result = r]
        /\ jobs' = Append(jobs, i)
        /\ UNCHANGED <<settings, wcParams, handle, call, env, sh, ui>>

\* The vendor rejects the promise of canMakePayment(): its reaction is queued.
ProbeRejects ==
    \E i \in 1..MaxProbes :
        /\ probes[i].inner = "pending"
        /\ probes' = [probes EXCEPT ![i].inner = "rejected", ![i].result = ProbeError]
        /\ jobs' = Append(jobs, i)
        /\ UNCHANGED <<settings, wcParams, handle, call, env, sh, ui>>

\* The event loop runs the first reaction of the microtask queue.
RunReaction ==
    /\ jobs # <<>>
    /\ probes' = [probes EXCEPT ![Head(jobs)] = runReaction(probes[Head(jobs)])]
    /\ jobs' = Tail(jobs)
    /\ UNCHANGED <<settings, wcParams, handle, call, env, sh, ui>>

NextProbe ==
    \/ CanDoPaymentRequest
    \/ ProbeResolves
    \/ ProbeRejects
    \/ RunReaction

SpecProbe == InitProbe /\ [][NextProbe]_vars

----------------------------------------------------------------------------
(* The error classifier and the address normalizer, applied to inputs. *)

InitPure ==
    /\ settings = Null
    /\ wcParams \in WcParams
    /\ handle = NoHandle
    /\ call = NoCall
    /\ probes = NoProbes
    /\ jobs = <<>>
    /\ env = NoEnv
    /\ sh = NotRun
    /\ ui = NoUi

GetErrorMessageForTypeAndCode ==
    \E type \in ErrorTypeInputs, code \in ErrorCodeInputs :
        /\ call' = Called("getErrorMessageForTypeAndCode",
                          [type |-> type, code |-> code],
                          getErrorMessageForTypeAndCode(type, code))
        /\ UNCHANGED <<settings, wcParams, handle, probes, jobs, env, sh, ui>>

NextClassifier == GetErrorMessageForTypeAndCode

SpecClassifier == InitPure /\ [][NextClassifier]_vars

\* pluckAddress( address ) on an address of the form.
PluckAddress ==
    \E address \in Addresses :
        /\ call' = Called("pluckAddress", address, pluckAddress(address))
        /\ UNCHANGED <<settings, wcParams, handle, probes, jobs, env, sh, ui>>

\* pluckAddress applied to the address a call of pluckAddress returned.
PluckAddressAgain ==
    /\ call.fn \in {"pluckAddress", "pluckAddress again"}
    /\ call.outcome = "return"
    /\ call' = Called("pluckAddress again", call.value, pluckAddress(call.value))
    /\ UNCHANGED <<settings, wcParams, handle, probes, jobs, env, sh, ui>>

NextAddress ==
    \/ PluckAddress
    \/ PluckAddressAgain

SpecAddress == InitPure /\ [][NextAddress]_vars

----------------------------------------------------------------------------
(* The release script (bin): a shell script run under `set -euo pipefail`. *)
(* A remote tag VERSION-test is tag 1, VERSION-test<n> is tag n.            *)

MaxTag == 3           \* the highest test tag the remote may hold

\* next=2
FirstNext_three == 2 + 1
FirstNext == 2

\* What the user types at `read -n 1`: one character or just Enter.
Replies == {"y", "Y", "n", "N", ""}
\* What the user pastes at a token prompt.
TokenReplies == {"", "ghp_token"}
\* How a step's external commands end: all succeed, a checked one fails
\* (the step calls abort), or an unchecked one fails (set -e ends the script).
Outcomes == {"ok", "abort", "errexit"}

Environments ==
    [k : {"machine"},
     argsOk : BOOLEAN,              \* run as bin/<script> with a version
     toolsInstalled : BOOLEAN,      \* git, svn and php
     woorelease : BOOLEAN,          \* .cache/woorelease.phar
     wooreleaseConfig : BOOLEAN,    \* ~/.woorelease/config
     clean : BOOLEAN,               \* git status reports nothing
     localBranch : BOOLEAN,         \* local branch release/VERSION
     similarLocalBranch : BOOLEAN,  \* a local branch whose name holds release/VERSION
     remoteBranch : BOOLEAN,        \* remote branch release/VERSION
     tags : SUBSET (1..MaxTag)]     \* remote test tags of VERSION

\* The script's variables as lines 89-94 set them.
ScriptStart ==
    [pc |-> "start",
     SUFFIX |-> <<"test">>,
     GITHUB_TOKEN |-> "",
     CREATE_LOCAL_BRANCH |-> FALSE,
     CREATE_REMOTE_BRANCH |-> FALSE,
     next |-> 0,
     REPLY |-> "",
     answers |-> <<>>,
     steps |-> <<>>,
     tag |-> <<>>,
     status |-> -1,
     via |-> "running"]

\* abort: exit 1.
abort(s) == [s EXCEPT !.pc = "exited", !.status = 1, !.via = "abort"]
\* exit <code>, written in the script.
exit(s, code) == [s EXCEPT !.pc = "exited", !.status = code, !.via = "exit"]
\* A failing command under set -e: the script ends with the command's status.
errexit(s) == [s EXCEPT !.pc = "exited", !.status = 1, !.via = "errexit"]
\* The user answers a prompt: read sets REPLY.
read(s, prompt, reply) ==
    [s EXCEPT !.REPLY = reply, !.answers = Append(s.answers, <<prompt, reply>>)]
\* A step of the main sequence starts.
begin(s, step) == [s EXCEPT !.steps = Append(s.steps, step)]

\* git ls-remote --exit-code --tags origin refs/tags/VERSION-test<n>: status 0
\* when the remote has the tag.
lsRemoteTag(e, n) == n \in e.tags
\* git ls-remote --exit-code --heads origin release/VERSION
lsRemoteBranch(e) == e.remoteBranch
\* git branch | grep "release/$VERSION": every branch name that holds the text.
grepLocalBranch(e) == e.localBranch \/ e.similarLocalBranch

\* The checks of the script's path and argument count.
preamble(s, e) ==
    IF ~e.argsOk THEN exit(s, 1) ELSE [s EXCEPT !.pc = "check_prerequisites"]

check_prerequisites(s, e, reply, downloaded) ==
    LET b == begin(s, "check_prerequisites") IN
    IF ~e.toolsInstalled THEN abort(b)
    ELSE IF ~e.woorelease /\ reply = "" THEN abort(read(b, "woorelease token", reply))
    ELSE IF ~e.woorelease /\ ~downloaded
         THEN abort([read(b, "woorelease token", reply) EXCEPT !.GITHUB_TOKEN = reply])
    ELSE LET t == IF e.woorelease THEN b
                  ELSE [read(b, "woorelease token", reply) EXCEPT !.GITHUB_TOKEN = reply]
         IN IF ~e.wooreleaseConfig THEN abort(t)
            ELSE [t EXCEPT !.pc = "check_github_status"]

\* check_github_status up to its loop.
check_github_status(s, e) ==
    LET b == begin(s, "check_github_status") IN
    IF ~e.clean THEN abort(b)
    ELSE LET f == [b EXCEPT
                     !.CREATE_LOCAL_BRANCH = IF grepLocalBranch(e) THEN FALSE ELSE TRUE,
                     !.CREATE_REMOTE_BRANCH = IF lsRemoteBranch(e) THEN FALSE ELSE TRUE]
         IN IF lsRemoteTag(e, 1)
            THEN [f EXCEPT !.next = FirstNext, !.pc = "tag_search"]
            ELSE [f EXCEPT !.pc = "print_summary"]

\* One turn of `while true`: break on a free tag, else count on.
tag_search(s, e) ==
    IF lsRemoteTag(e, s.next)
    THEN [s EXCEPT !.next = s.next + 1]
    ELSE [s EXCEPT !.SUFFIX = s.SUFFIX \o <<s.next>>, !.pc = "print_summary"]

\* print_summary's test: a local branch that was never pushed.
summaryAborts_never(s) == FALSE
summaryAborts(s) == s.CREATE_REMOTE_BRANCH /\ ~s.CREATE_LOCAL_BRANCH

print_summary(s) ==
    LET b == begin(s, "print_summary") IN
    IF summaryAborts(b) THEN abort(b) ELSE [b EXCEPT !.pc = "confirmation"]

\* $REPLY =~ ^[Yy]$
replyConfirms_unlessNo(reply) == reply \notin {"n", "N"}
replyConfirms(reply) == reply \in {"y", "Y"}

\* read -p "Do you want to continue? (y/N) " -n 1 -r, and what follows it.
confirmation(s, reply, eof) ==
    LET b == begin(s, "confirmation") IN
    IF eof THEN errexit(b)
    ELSE LET r == read(b, "continue", reply) IN
         IF ~replyConfirms(reply) THEN abort(r)
         ELSE IF r.CREATE_REMOTE_BRANCH
              THEN [r EXCEPT !.pc = "create_git_branch"]
              ELSE [r EXCEPT !.pc = "create_test_package"]

create_git_branch(s, outcome) ==
    LET b == begin(s, "create_git_branch") IN
    CASE outcome = "abort" -> abort(b)
      [] outcome = "errexit" -> errexit(b)
      [] OTHER -> [b EXCEPT !.pc = "create_test_package"]

create_test_package(s, outcome) ==
    LET b == begin(s, "create_test_package") IN
    CASE outcome = "abort" -> abort(b)
      [] outcome = "errexit" -> errexit(b)
      [] OTHER -> [b EXCEPT !.pc = "github_token"]

\* The token prompt before create_github_release.
github_token(s, reply) ==
    IF s.GITHUB_TOKEN = ""
    THEN IF reply = "" THEN exit(read(s, "release token", reply), 0)
         ELSE [read(s, "release token", reply) EXCEPT !.GITHUB_TOKEN = reply,
                                                      !.pc = "create_github_release"]
    ELSE [s EXCEPT !.pc = "create_github_release"]

\* create_github_release; the script ends after it.
create_github_release(s, outcome) ==
    LET b == [begin(s, "create_github_release") EXCEPT !.tag = <<"VERSION">> \o s.SUFFIX] IN
    IF outcome # "ok" THEN abort(b)
    ELSE [b EXCEPT !.pc = "exited", !.status = 0, !.via = "end"]

InitRelease ==
    /\ settings = Null
    /\ wcParams \in WcParams
    /\ handle = NoHandle
    /\ call = NoCall
    /\ probes = NoProbes
    /\ jobs = <<>>
    /\ env \in Environments
    /\ sh = ScriptStart
    /\ ui = NoUi

Preamble ==
    /\ sh.pc = "start"
    /\ sh' = preamble(sh, env)
    /\ UNCHANGED <<settings, wcParams, handle, call, probes, jobs, env, ui>>

CheckPrerequisites ==
    /\ sh.pc = "check_prerequisites"
    /\ \E reply \in TokenReplies, downloaded \in BOOLEAN :
           sh' = check_prerequisites(sh, env, reply, downloaded)
    /\ UNCHANGED <<settings, wcParams, handle, call, probes, jobs, env, ui>>

CheckGithubStatus ==
    /\ sh.pc = "check_github_status"
    /\ sh' = check_github_status(sh, env)
    /\ UNCHANGED <<settings, wcParams, handle, call, probes, jobs, env, ui>>

TagSearch ==
    /\ sh.pc = "tag_search"
    /\ sh' = tag_search(sh, env)
    /\ UNCHANGED <<settings, wcParams, handle, call, probes, jobs, env, ui>>

PrintSummary ==
    /\ sh.pc = "print_summary"
    /\ sh' = print_summary(sh)
    /\ UNCHANGED <<settings, wcParams, handle, call, probes, jobs, env, ui>>

Confirmation ==
    /\ sh.pc = "confirmation"
    /\ \E reply \in Replies, eof \in BOOLEAN :
           sh' = confirmation(sh, IF eof THEN "" ELSE reply, eof)
    /\ UNCHANGED <<settings, wcParams, handle, call, probes, jobs, env, ui>>

CreateGitBranch ==
    /\ sh.pc = "create_git_branch"
    /\ \E outcome \in Outcomes : sh' = create_git_branch(sh, outcome)
    /\ UNCHANGED <<settings, wcParams, handle, call, probes, jobs, env, ui>>

CreateTestPackage ==
    /\ sh.pc = "create_test_package"
    /\ \E outcome \in Outcomes : sh' = create_test_package(sh, outcome)
    /\ UNCHANGED <<settings, wcParams, handle, call, probes, jobs, env, ui>>

GithubToken ==
    /\ sh.pc = "github_token"
    /\ \E reply \in TokenReplies : sh' = github_token(sh, reply)
    /\ UNCHANGED <<settings, wcParams, handle, call, probes, jobs, env, ui>>

CreateGithubRelease ==
    /\ sh.pc = "create_github_release"
    /\ \E outcome \in {"ok", "abort"} : sh' = create_github_release(sh, outcome)
    /\ UNCHANGED <<settings, wcParams, handle, call, probes, jobs, env, ui>>

NextRelease ==
    \/ Preamble
    \/ CheckPrerequisites
    \/ CheckGithubStatus
    \/ TagSearch
    \/ PrintSummary
    \/ Confirmation
    \/ CreateGitBranch
    \/ CreateTestPackage
    \/ GithubToken
    \/ CreateGithubRelease

SpecRelease == InitRelease /\ [][NextRelease]_vars

\* git ls-remote returns, and the shell then runs the loop's next turn.
FairSpecRelease == SpecRelease /\ WF_vars(TagSearch)

----------------------------------------------------------------------------
(* The express payment button: PaymentRequestExpressComponent.  A render is *)
(* the element returned, the type of the vendor button's style and the      *)
(* calls a click on the element makes, in order.                            *)

MaxClicks == 2        \* clicks on a rendered button

ButtonSettings ==
    [k : {"object"},
     type : {Undefined, Str("buy")},
     is_branded : {Undefined, True, False},
     branded_type : {Undefined, Str("long"), Str("short")},
     is_custom : {Undefined, True, False}]

\* The settings blob the component reads: absent, without button, or with one.
ComponentSettings ==
    {Null} \cup
    {[k |-> "object", publicKey |-> Str("pk_test_1"), stripeTotalLabel |-> Undefined,
      button |-> b] : b \in ButtonSettings \cup {Undefined}}

\* The handle usePaymentRequest gives once the probe says the session can pay.
SampleHandle == createPaymentRequestUsingCart([checkout |-> [needs_payer_phone |-> True]],
                                              SampleCart).value

Rendered(element, type, onClick) ==
    Return([element |-> element, type |-> type, onClick |-> onClick], <<>>)

\* customAndBrandedClickHandler
customAndBrandedClickHandler == <<"onPaymentRequestButtonClick", "paymentRequest.show">>

\* The component with the branded test before the custom one.
PaymentRequestExpressComponent_brandedFirst(blob, paymentRequest, useGooglePay) ==
    LET data == getStripeServerData(blob) IN
    IF data.outcome = "throw" THEN data
    ELSE IF data.value.button.k # "object"
    THEN Throw("TypeError: Cannot destructure property 'type' of undefined", <<>>)
    ELSE LET button == data.value.button
             type == IF button.type = Undefined THEN Str("default") ELSE button.type
         IN IF ~Truthy(paymentRequest) THEN Rendered("null", Undefined, <<>>)
            ELSE IF Truthy(button.is_branded) /\ useGooglePay
            THEN Rendered("GooglePayButton", Undefined, customAndBrandedClickHandler)
            ELSE IF Truthy(button.is_custom)
            THEN Rendered("CustomButton", Undefined, customAndBrandedClickHandler)
            ELSE Rendered("PaymentRequestButtonElement",
                          IF Truthy(button.is_branded)
                          THEN (IF button.branded_type = Str("long")
                                THEN Str("buy") ELSE Str("default"))
                          ELSE type,
                          <<"onPaymentRequestButtonClick">>)

PaymentRequestExpressComponent(blob, paymentRequest, useGooglePay) ==
    LET data == getStripeServerData(blob) IN
    IF data.outcome = "throw" THEN data
    ELSE IF data.value.button.k # "object"
    THEN Throw("TypeError: Cannot destructure property 'type' of undefined", <<>>)
    ELSE LET button == data.value.button
             type == IF button.type = Undefined THEN Str("default") ELSE button.type
             isBranded == button.is_branded
             brandedType == button.branded_type
             isCustom == button.is_custom
         IN IF ~Truthy(paymentRequest) THEN Rendered("null", Undefined, <<>>)
            ELSE IF Truthy(isCustom)
            THEN Rendered("CustomButton", Undefined, customAndBrandedClickHandler)
            ELSE IF Truthy(isBranded) /\ useGooglePay
            THEN Rendered("GooglePayButton", Undefined, customAndBrandedClickHandler)
            ELSE Rendered("PaymentRequestButtonElement",
                          IF Truthy(isBranded)
                          THEN (IF brandedType = Str("long")
                                THEN Str("buy") ELSE Str("default"))
                          ELSE type,
                          <<"onPaymentRequestButtonClick">>)

InitComponent ==
    /\ settings \in ComponentSettings
    /\ wcParams = [checkout |-> [needs_payer_phone |-> True]]
    /\ handle = NoHandle
    /\ call = NoCall
    /\ probes = NoProbes
    /\ jobs = <<>>
    /\ env = NoEnv
    /\ sh = NotRun
    /\ ui = NoUi

\* React renders the component, with what its hooks return.
Render ==
    \E paymentRequest \in {Null, SampleHandle}, useGooglePay \in BOOLEAN :
        LET r == PaymentRequestExpressComponent(settings, paymentRequest, useGooglePay) IN
        /\ ui' = [k |-> "rendered",
                  paymentRequest |-> paymentRequest,
                  shouldUseGooglePayBrand |-> useGooglePay,
                  outcome |-> r.outcome,
                  view |-> r.value,
                  clicks |-> 0,
                  calls |-> <<>>]
        /\ UNCHANGED <<settings, wcParams, handle, call, probes, jobs, env, sh>>

\* The user clicks the rendered button.
Click ==
    /\ ui.k = "rendered"
    /\ ui.outcome = "return"
    /\ ui.view.element # "null"
    /\ ui.clicks < MaxClicks
    /\ ui' = [ui EXCEPT !.clicks = ui.clicks + 1,
                        !.calls = ui.calls \o ui.view.onClick]
    /\ UNCHANGED <<settings, wcParams, handle, call, probes, jobs, env, sh>>

NextComponent ==
    \/ Render
    \/ Click

SpecComponent == InitComponent /\ [][NextComponent]_vars

----------------------------------------------------------------------------
(* Properties. *)

Updaters == {"updatePaymentRequest", "updatePaymentRequestWithCart"}

\* The options a builder call passed to stripe.paymentRequest.
ConfigPassed == call.sdk[1].arg

\* C1: for every input of getPaymentRequest, the config passed to
\* stripe.paymentRequest has country "US" when countryCode is "PR" or
\* empty/absent, and country = countryCode for every other code.
C1_CountryRemapped ==
    (call.fn = "getPaymentRequest" /\ call.outcome = "return") =>
        IF call.args.countryCode = Str("PR") \/ ~Truthy(call.args.countryCode)
        THEN ConfigPassed.country = Str("US")
        ELSE ConfigPassed.country = call.args.countryCode

\* C2: for every non-friendly error type and every code, omitted or not,
\* getErrorMessageForTypeAndCode returns the generic fallback message.
C2_NonFriendlyIsGeneric ==
    (call.fn = "getErrorMessageForTypeAndCode" /\ call.args.type \in NonFriendlyTypes) =>
        (call.outcome = "return" /\ call.value = GenericErrorMessage)

NotSpace(c) == c # " "

\* C3: for every address with a non-null postcode, pluckAddress returns
\* exactly country, state, city and postcode; the first three unchanged and
\* the postcode with every space removed and upper-cased.
C3_PostcodeNormalized ==
    (call.fn = "pluckAddress" /\ call.args.postcode.k = "string") =>
        /\ call.outcome = "return"
        /\ DOMAIN call.value = {"country", "state", "city", "postcode"}
        /\ call.value.country = call.args.country
        /\ call.value.state = call.args.state
        /\ call.value.city = call.args.city
        /\ call.value.postcode =
               PStr(toUpperCase(SelectSeq(call.args.postcode.c, NotSpace)))

\* C4: pluckAddress is idempotent: applied to an address it returned, it
\* returns that address, in all four fields.
C4_PluckIdempotent ==
    (call.fn = "pluckAddress again") =>
        (call.outcome = "return" /\ call.value = call.args)

Queued(i) == \E n \in 1..Len(jobs) : jobs[n] = i

\* C5: when the promise of canMakePayment() rejects, the promise returned by
\* canDoPaymentRequest rejects: once the rejection's reaction has run, the
\* returned promise is rejected, not pending.
C5_RejectionReachesCaller ==
    \A i \in 1..MaxProbes :
        (probes[i].inner = "rejected" /\ ~Queued(i)) => probes[i].outer = "rejected"

\* The value the claim gives for a probe result.
CapabilityResult(r) ==
    IF ~Truthy(r) THEN [canPay |-> False]
    ELSE IF r.applePay = True
         THEN [canPay |-> True, requestType |-> Str("apple_pay")]
         ELSE [canPay |-> True, requestType |-> Str("payment_request_api")]

\* C6: canDoPaymentRequest calls canMakePayment exactly once and, once the
\* probe has resolved with r and its reaction has run, has resolved exactly
\* once, with {canPay: false} for a falsy r, apple_pay for a truthy r with a
\* truthy applePay, payment_request_api for every other truthy r;
\* requestType is present only when canPay is true.
C6_ProbeClassified ==
    \A i \in 1..MaxProbes :
        /\ probes[i].inner # "none" => probes[i].canMakePaymentCalls = 1
        /\ probes[i].resolveCalls <= 1
        /\ (probes[i].inner = "fulfilled" /\ ~Queued(i)) =>
               (probes[i].outer = "fulfilled" /\ probes[i].resolveCalls = 1)
        /\ probes[i].outer = "fulfilled" =>
               /\ probes[i].inner = "fulfilled"
               /\ probes[i].value = CapabilityResult(probes[i].result)
               /\ "requestType" \in DOMAIN probes[i].value
                      <=> probes[i].value.canPay = True

C6_Witness ==
    \E i \in 1..MaxProbes :
        /\ probes[i].outer = "fulfilled"
        /\ probes[i].result = [k |-> "object", applePay |-> Undefined]
        /\ probes[i].value.requestType = Str("payment_request_api")
        /\ probes[i].resolveCalls = 1

OneUpdate(c) ==
    /\ c.outcome = "return"
    /\ c.value = Undefined
    /\ Len(c.sdk) = 1
    /\ c.sdk[1].op = "update"
    /\ DOMAIN c.sdk[1].arg = {"total", "currency", "displayItems"}

\* C8, as claimed: each invocation of an updater calls update exactly once,
\* with total, currency and displayItems only, and returns no value.
C8_EveryUpdateCallsOnce ==
    (call.fn \in Updaters) => OneUpdate(call)

\* C8, amended: each invocation of updatePaymentRequestWithCart, and each
\* invocation of updatePaymentRequest with the settings blob present, calls
\* update exactly once with total, currency and displayItems only, returns
\* no value and leaves the handle's country and requirement flags as they
\* were; updatePaymentRequest with the blob absent throws before calling
\* update and leaves the handle as it was.
C8_UpdaterFrame ==
    [][ (call'.fn \in Updaters) =>
            IF call'.fn = "updatePaymentRequest" /\ ~Truthy(settings)
            THEN /\ call'.outcome = "throw"
                 /\ call'.sdk = <<>>
                 /\ handle' = handle
            ELSE /\ OneUpdate(call')
                 /\ handle'.options.total = call'.sdk[1].arg.total
                 /\ handle'.options.currency = call'.sdk[1].arg.currency
                 /\ handle'.options.displayItems = call'.sdk[1].arg.displayItems
                 /\ handle'.options.country = handle.options.country
                 /\ handle'.options.requestPayerName = handle.options.requestPayerName
                 /\ handle'.options.requestPayerEmail = handle.options.requestPayerEmail
                 /\ handle'.options.requestPayerPhone = handle.options.requestPayerPhone
                 /\ handle'.options.requestShipping = handle.options.requestShipping
      ]_vars

C8_Witness ==
    /\ call.fn = "updatePaymentRequestWithCart"
    /\ call.outcome = "return"
    /\ call.args.order_data.country_code = Str("PR")
    /\ handle.options.country = Str("GB")
    /\ handle.options.currency = call.args.order_data.currency

\* C9: getStripeServerData throws whenever the settings blob is absent and
\* otherwise returns the blob; getApiKey throws whenever the blob is absent
\* or its publicKey is absent or empty and otherwise returns publicKey.
C9_ConfigurationFailsLoudly ==
    /\ (call.fn = "getStripeServerData") =>
           IF settings = Null
           THEN call.outcome = "throw"
           ELSE call.outcome = "return" /\ call.value = settings
    /\ (call.fn = "getApiKey") =>
           IF settings = Null \/ settings.publicKey \in {Undefined, Null, Str("")}
           THEN call.outcome = "throw"
           ELSE call.outcome = "return" /\ call.value = settings.publicKey

C9_Witness ==
    /\ call.fn = "getApiKey"
    /\ settings # Null
    /\ settings.publicKey = Str("")
    /\ call.outcome = "throw"

\* C10: with the settings blob present getPaymentRequest calls
\* stripe.paymentRequest exactly once and returns its result; the config has
\* total = {label: the configured stripeTotalLabel, or "Total" without one;
\* amount: total.value}, currency = currencyCode, requestShipping =
\* shippingRequired and the three payer requirements true.
C10_BuilderConfig ==
    (call.fn = "getPaymentRequest" /\ settings # Null) =>
        /\ call.outcome = "return"
        /\ Len(call.sdk) = 1
        /\ call.sdk[1].op = "paymentRequest"
        /\ call.value = handle
        /\ handle.options = ConfigPassed
        /\ ConfigPassed.total =
               [label |-> IF settings.stripeTotalLabel \in {Undefined, Null, Str("")}
                          THEN Str("Total")
                          ELSE settings.stripeTotalLabel,
                amount |-> call.args.total.value]
        /\ ConfigPassed.currency = call.args.currencyCode
        /\ ConfigPassed.requestShipping = call.args.shippingRequired
        /\ ConfigPassed.requestPayerName = True
        /\ ConfigPassed.requestPayerEmail = True
        /\ ConfigPassed.requestPayerPhone = True

C10_Witness ==
    /\ call.fn = "getPaymentRequest"
    /\ call.outcome = "return"
    /\ settings.stripeTotalLabel = Str("Pay now")
    /\ ConfigPassed.total = [label |-> Str("Pay now"), amount |-> 1000]
    /\ call.args.shippingRequired = False

\* C11: for every cart, the config createPaymentRequestUsingCart passes to
\* stripe.paymentRequest has country "US" when cart.order_data.country_code
\* is absent, empty or "PR"; no config carries country "PR" or an empty
\* country.
C11_CartCountryDefaulted ==
    (call.fn = "createPaymentRequestUsingCart" /\ call.outcome = "return") =>
        /\ (call.args.order_data.country_code = Str("PR")
                \/ ~Truthy(call.args.order_data.country_code))
               => ConfigPassed.country = Str("US")
        /\ ConfigPassed.country # Str("PR")
        /\ Truthy(ConfigPassed.country)

Started(step) == \E i \in 1..Len(sh.steps) : sh.steps[i] = step

\* The answers given to the 'Do you want to continue?' prompt.
ContinueAnswers == {sh.answers[i][2] : i \in {j \in 1..Len(sh.answers) : sh.answers[j][1] = "continue"}}

GatedSteps == {"create_git_branch", "create_test_package", "create_github_release"}

StepOrder ==
    <<"check_prerequisites", "check_github_status", "print_summary", "confirmation",
      "create_git_branch", "create_test_package", "create_github_release">>
StepOrderNoBranch ==
    <<"check_prerequisites", "check_github_status", "print_summary", "confirmation",
      "create_test_package", "create_github_release">>

IsPrefix(a, b) == Len(a) <= Len(b) /\ \A i \in 1..Len(a) : a[i] = b[i]

\* C12: none of create_git_branch, create_test_package, create_github_release
\* starts unless the reply to 'Do you want to continue?' is y or Y; any other
\* reply ends the run through abort with exit status 1 before those steps;
\* the steps that run occur in the order check_prerequisites,
\* check_github_status, print_summary, confirmation, create_git_branch
\* (optional), create_test_package, create_github_release.
C12_ConfirmationGate ==
    /\ (\E step \in GatedSteps : Started(step)) =>
           (ContinueAnswers # {} /\ ContinueAnswers \subseteq {"y", "Y"})
    /\ (\E a \in ContinueAnswers : a \notin {"y", "Y"}) =>
           /\ sh.pc = "exited" /\ sh.via = "abort" /\ sh.status = 1
           /\ \A step \in GatedSteps : ~Started(step)
    /\ IsPrefix(sh.steps, StepOrder) \/ IsPrefix(sh.steps, StepOrderNoBranch)

C12_Witness ==
    /\ sh.steps = StepOrder
    /\ ContinueAnswers = {"Y"}
    /\ sh.status = 0

\* The suffix of the first unused test tag.
FirstUnusedSuffix(tags) ==
    IF 1 \notin tags THEN <<"test">>
    ELSE <<"test", CHOOSE n \in 2..(MaxTag + 1) :
                       n \notin tags /\ \A m \in 2..(n - 1) : m \in tags>>

\* The tag a suffix names.
TagOfSuffix(suffix) == IF Len(suffix) = 1 THEN 1 ELSE suffix[2]

C13_SuffixUnused ==
    /\ Started("print_summary") => sh.SUFFIX = FirstUnusedSuffix(env.tags)
    /\ Started("create_github_release") =>
           /\ sh.tag = <<"VERSION">> \o FirstUnusedSuffix(env.tags)
           /\ TagOfSuffix(SubSeq(sh.tag, 2, Len(sh.tag))) \notin env.tags

\* C13: SUFFIX is 'test' when the remote has no tag VERSION-test, otherwise
\* 'test' followed by the smallest n >= 2 whose tag VERSION-test<n> the
\* remote lacks; the search loop ends, and the tag create_github_release
\* uses did not exist on the remote when it was checked.
C13_FirstUnusedTestTag ==
    /\ []C13_SuffixUnused
    /\ (sh.pc = "tag_search") ~> (sh.pc # "tag_search")

C13_Witness ==
    /\ Started("create_github_release")
    /\ env.tags = {1, 2}
    /\ sh.tag = <<"VERSION", "test", 3>>

\* C14: create_git_branch runs only when neither the local nor the remote
\* branch release/VERSION existed at check time; with the remote branch
\* present it never runs; with the remote branch missing and the local one
\* present the script aborts in print_summary with status 1, before the
\* confirmation prompt and every later step.
C14_BranchCreatedOnlyWhenMissing ==
    /\ Started("create_git_branch") => (~env.localBranch /\ ~env.remoteBranch)
    /\ env.remoteBranch => ~Started("create_git_branch")
    /\ (~env.remoteBranch /\ env.localBranch /\ Started("print_summary")) =>
           /\ sh.pc = "exited" /\ sh.via = "abort" /\ sh.status = 1
           /\ sh.steps[Len(sh.steps)] = "print_summary"
           /\ ContinueAnswers = {}

C14_Witness ==
    /\ Started("create_git_branch")
    /\ ~env.localBranch
    /\ ~env.remoteBranch
    /\ sh.CREATE_REMOTE_BRANCH

\* The calls n clicks on the custom or the Google Pay button make.
RECURSIVE HandlerThenShow(_)
HandlerThenShow(n) ==
    IF n = 0 THEN <<>>
    ELSE HandlerThenShow(n - 1) \o <<"onPaymentRequestButtonClick", "paymentRequest.show">>

====
